---- MODULE Spec2Model ----
(***************************************************************************)
(* Model of src/stride_conv.py: the function stride_conv(array, kernel, s) *)
(* and the module-level call stride_conv(arr, kernel, 3).                  *)
(*                                                                         *)
(* A numpy 2-d array is a record [shape |-> <<rows, cols>>, data |-> rows] *)
(* where data is a sequence of rows (TLA+ sequences are 1-based, the       *)
(* code's indices are 0-based: element [a][b] of the code is data[a+1][b+1]*)
(* here).  The loop variables i, j and the limits keep the code's 0-based  *)
(* values.  One action models one statement (or loop-header evaluation) of *)
(* the function; a raised exception ends the call in pc = "error".         *)
(***************************************************************************)
EXTENDS Integers, Sequences, FiniteSets, TLC

\* ------------------------------------------------------------------ bounds
MaxDim == 5        \* grids of 1..MaxDim rows and 1..MaxDim columns
MaxKern == 3       \* kernels of 0..MaxKern rows and 0..MaxKern columns
MaxStride == 3     \* strides up to MaxStride
MaxNegStride == 1  \* strides down to -MaxNegStride

\* ------------------------------------------------- numpy helpers (pure)
RECURSIVE SumSeq(_)
SumSeq(q) == IF q = <<>> THEN 0 ELSE Head(q) + SumSeq(Tail(q))

\* np.sum over a 2-d array: the sum of all its elements
NpSum(x) == SumSeq([a \in 1..x.shape[1] |-> SumSeq(x.data[a])])

Min(a, b) == IF a < b THEN a ELSE b

Max(a, b) == IF a > b THEN a ELSE b

\* a slice bound v on an axis of length n, as Python resolves it: a negative
\* bound counts from the end, and the bound is clipped to 0..n
SliceBound(v, n) == IF v < 0 THEN Max(v + n, 0) ELSE Min(v, n)

\* array[r0:r1, c0:c1]: a basic slice (never an error; empty if stop <= start)
Slice(x, r0, r1, c0, c1) ==
    LET rs == SliceBound(r0, x.shape[1])
        re == Max(SliceBound(r1, x.shape[1]), rs)
        cs == SliceBound(c0, x.shape[2])
        ce == Max(SliceBound(c1, x.shape[2]), cs)
    IN  [shape |-> <<re - rs, ce - cs>>,
         data  |-> [a \in 1..(re - rs) |->
                      [b \in 1..(ce - cs) |-> x.data[rs + a][cs + b]]]]

\* numpy's broadcasting rule for two 2-d shapes
Broadcastable(sh1, sh2) ==
    \A d \in 1..2 : sh1[d] = sh2[d] \/ sh1[d] = 1 \/ sh2[d] = 1

BroadcastShape(sh1, sh2) ==
    [d \in 1..2 |-> IF sh1[d] = 1 THEN sh2[d] ELSE sh1[d]]

\* x * y, element-wise with broadcasting (defined when Broadcastable)
Multiply(x, y) ==
    LET sh == BroadcastShape(x.shape, y.shape)
        Ix(z, d, n) == IF z.shape[d] = 1 THEN 1 ELSE n
    IN  [shape |-> sh,
         data  |-> [a \in 1..sh[1] |->
                      [b \in 1..sh[2] |->
                         x.data[Ix(x, 1, a)][Ix(x, 2, b)]
                           * y.data[Ix(y, 1, a)][Ix(y, 2, b)]]]]

\* variant of RangeHas: the stop value is taken as inclusive
RangeHasInclusive(v, lim, step) == IF step > 0 THEN v <= lim ELSE v >= lim

\* does range(0, lim, step) (step # 0) yield the value v = n * step ?
RangeHas(v, lim, step) == IF step > 0 THEN v < lim ELSE v > lim

\* variant of Limit: the remainder is dropped without the extra - 1
LimitNoBias(extent, kern) == extent - (extent % kern)

\* variant of Limit: the remainder is not dropped
LimitNoMod(extent, kern) == extent - 1

\* (extent - (extent % kern)) - 1, for kern > 0
Limit(extent, kern) == (extent - (extent % kern)) - 1

\* --------------------------------------------------------------- inputs
\* the module-level example array: 7 x 7, row r filled with r + 1
arr == [shape |-> <<7, 7>>,
        data  |-> [r \in 1..7 |-> [c \in 1..7 |-> r]]]

\* the module-level example kernel: 3 x 3 of ones
kernel3 == [shape |-> <<3, 3>>,
            data  |-> [a \in 1..3 |-> [b \in 1..3 |-> 1]]]

GridPatterns == {"rows", "cols", "cells"}
KernelPatterns == {"ones", "cells"}

\* a w x h grid: "rows" as arr (row r holds r+1), "cols" its transpose,
\* "cells" with every cell different
GridOf(w, h, p) ==
    [shape |-> <<w, h>>,
     data  |-> [r \in 1..w |-> [c \in 1..h |->
                  CASE p = "rows"  -> r
                    [] p = "cols"  -> c
                    [] OTHER       -> (r - 1) * h + c]]]

KernelOf(kw, kh, p) ==
    [shape |-> <<kw, kh>>,
     data  |-> [a \in 1..kw |-> [b \in 1..kh |->
                  CASE p = "ones" -> 1
                    [] OTHER      -> (a - 1) * kh + b]]]

Grids == {GridOf(w, h, p) : w \in 1..MaxDim, h \in 1..MaxDim, p \in GridPatterns}
Kernels == {KernelOf(kw, kh, p) : kw \in 0..MaxKern, kh \in 0..MaxKern,
                                  p \in KernelPatterns}
Strides == (0 - MaxNegStride)..MaxStride

\* the calls explored: the bounded family and the module's own call
Calls == (Grids \X Kernels \X Strides) \cup {<<arr, kernel3, 3>>}

\* ---------------------------------------------------------------- state
VARIABLES
    array, kernel, s,          \* the parameters of the call
    width, height,             \* array.shape
    kernw, kernh,              \* kernel.shape
    beg, end, final,           \* locals
    xlim, ylim,                \* loop limits
    i, j,                      \* loop variables
    it_i, it_j,                \* next value of each range iterator
    k,                         \* the row under construction
    result,                    \* the returned array (its rows)
    pc,                        \* position in the function
    err,                       \* the exception that ended the call
    anchors                    \* history: every (i, j) whose window was extracted

vars == <<array, kernel, s, width, height, kernw, kernh, beg, end, final,
          xlim, ylim, i, j, it_i, it_j, k, result, pc, err, anchors>>

params == <<array, kernel, s>>

Init ==
    /\ \E c \in Calls : /\ array = c[1]
                        /\ kernel = c[2]
                        /\ s = c[3]
    /\ width = 0 /\ height = 0 /\ kernw = 0 /\ kernh = 0
    /\ beg = 0 /\ end = 0 /\ final = <<>>
    /\ xlim = 0 /\ ylim = 0 /\ i = 0 /\ j = 0 /\ it_i = 0 /\ it_j = 0
    /\ k = <<>> /\ result = <<>>
    /\ pc = "call" /\ err = "none" /\ anchors = <<>>

\* lines 17-21: unpack the shapes, beg = 0, end = kernw, final = []
Unpack ==
    /\ pc = "call"
    /\ width' = array.shape[1] /\ height' = array.shape[2]
    /\ kernw' = kernel.shape[1] /\ kernh' = kernel.shape[2]
    /\ beg' = 0
    /\ end' = kernel.shape[1]
    /\ final' = <<>>
    /\ pc' = "xlim"
    /\ UNCHANGED <<params, xlim, ylim, i, j, it_i, it_j, k, result, err, anchors>>

\* line 22: xlim = (width - (width % kernw)) - 1
ComputeXlim ==
    /\ pc = "xlim"
    /\ kernw # 0
    /\ xlim' = Limit(width, kernw)
    /\ pc' = "outer_range"
    /\ UNCHANGED <<params, width, height, kernw, kernh, beg, end, final,
                   ylim, i, j, it_i, it_j, k, result, err, anchors>>

\* line 22 with kernw = 0: width % 0 raises ZeroDivisionError
XlimZeroDivision ==
    /\ pc = "xlim"
    /\ kernw = 0
    /\ pc' = "error"
    /\ err' = "ZeroDivisionError"
    /\ UNCHANGED <<params, width, height, kernw, kernh, beg, end, final,
                   xlim, ylim, i, j, it_i, it_j, k, result, anchors>>

\* line 23: range(0, xlim, s) is built
OuterRange ==
    /\ pc = "outer_range"
    /\ s # 0
    /\ it_i' = 0
    /\ pc' = "outer"
    /\ UNCHANGED <<params, width, height, kernw, kernh, beg, end, final,
                   xlim, ylim, i, j, it_j, k, result, err, anchors>>

\* line 23 with s = 0: range() arg 3 must not be zero (ValueError)
OuterRangeZeroStep ==
    /\ pc = "outer_range"
    /\ s = 0
    /\ pc' = "error"
    /\ err' = "ValueError: range step"
    /\ UNCHANGED <<params, width, height, kernw, kernh, beg, end, final,
                   xlim, ylim, i, j, it_i, it_j, k, result, anchors>>

\* line 23: the for loop takes the next i
OuterNext ==
    /\ pc = "outer"
    /\ RangeHas(it_i, xlim, s)
    /\ i' = it_i
    /\ it_i' = it_i + s
    /\ pc' = "row"
    /\ UNCHANGED <<params, width, height, kernw, kernh, beg, end, final,
                   xlim, ylim, j, it_j, k, result, err, anchors>>

\* line 23: the range is exhausted, the loop ends
OuterExit ==
    /\ pc = "outer"
    /\ ~RangeHas(it_i, xlim, s)
    /\ pc' = "return"
    /\ UNCHANGED <<params, width, height, kernw, kernh, beg, end, final,
                   xlim, ylim, i, j, it_i, it_j, k, result, err, anchors>>

\* lines 24-27: k = [], ylim = (height - (height % kernh)) - 1, range(0, ylim, s)
RowBegin ==
    /\ pc = "row"
    /\ kernh # 0
    /\ k' = <<>>
    /\ ylim' = Limit(height, kernh)
    /\ it_j' = 0
    /\ pc' = "inner"
    /\ UNCHANGED <<params, width, height, kernw, kernh, beg, end, final,
                   xlim, i, j, it_i, result, err, anchors>>

\* line 26 with kernh = 0: height % 0 raises ZeroDivisionError (k = [] was done)
YlimZeroDivision ==
    /\ pc = "row"
    /\ kernh = 0
    /\ k' = <<>>
    /\ pc' = "error"
    /\ err' = "ZeroDivisionError"
    /\ UNCHANGED <<params, width, height, kernw, kernh, beg, end, final,
                   xlim, ylim, i, j, it_i, it_j, result, anchors>>

\* line 27: the inner for loop takes the next j
InnerNext ==
    /\ pc = "inner"
    /\ RangeHas(it_j, ylim, s)
    /\ j' = it_j
    /\ it_j' = it_j + s
    /\ pc' = "window"
    /\ UNCHANGED <<params, width, height, kernw, kernh, beg, end, final,
                   xlim, ylim, i, it_i, k, result, err, anchors>>

\* line 27: the inner range is exhausted
InnerExit ==
    /\ pc = "inner"
    /\ ~RangeHas(it_j, ylim, s)
    /\ pc' = "row_end"
    /\ UNCHANGED <<params, width, height, kernw, kernh, beg, end, final,
                   xlim, ylim, i, j, it_i, it_j, k, result, err, anchors>>

\* variant of Window: the two axes' offsets are exchanged
WindowSwapped == Slice(array, beg + j, end + j, beg + i, end + i)

\* line 28: the sub-array the code extracts at the current (i, j)
Window == Slice(array, beg + i, end + i, beg + j, end + j)

\* variant of Reduce: the product is written back into the array's window
\* (array[...] *= kernel) before it is summed
ReduceInPlace ==
    /\ pc = "window"
    /\ Broadcastable(Window.shape, kernel.shape)
    /\ BroadcastShape(Window.shape, kernel.shape) = Window.shape
    /\ anchors' = Append(anchors, <<i, j>>)
    /\ k' = Append(k, NpSum(Multiply(Window, kernel)))
    /\ array' = [array EXCEPT !.data =
                   [r \in 1..array.shape[1] |-> [c \in 1..array.shape[2] |->
                      IF /\ r - i \in 1..Window.shape[1]
                         /\ c - j \in 1..Window.shape[2]
                      THEN Multiply(Window, kernel).data[r - i][c - j]
                      ELSE array.data[r][c]]]]
    /\ pc' = "inner"
    /\ UNCHANGED <<kernel, s, width, height, kernw, kernh, beg, end, final,
                   xlim, ylim, i, j, it_i, it_j, result, err>>

\* line 28: k.append(np.sum(array[beg+i:end+i, beg+j:end+j] * kernel))
Reduce ==
    /\ pc = "window"
    /\ Broadcastable(Window.shape, kernel.shape)
    /\ anchors' = Append(anchors, <<i, j>>)
    /\ k' = Append(k, NpSum(Multiply(Window, kernel)))
    /\ pc' = "inner"
    /\ UNCHANGED <<params, width, height, kernw, kernh, beg, end, final,
                   xlim, ylim, i, j, it_i, it_j, result, err>>

\* line 28: the shapes of the sub-array and the kernel do not broadcast
\* (ValueError: operands could not be broadcast together)
ReduceShapeError ==
    /\ pc = "window"
    /\ ~Broadcastable(Window.shape, kernel.shape)
    /\ anchors' = Append(anchors, <<i, j>>)
    /\ pc' = "error"
    /\ err' = "ValueError: broadcast"
    /\ UNCHANGED <<params, width, height, kernw, kernh, beg, end, final,
                   xlim, ylim, i, j, it_i, it_j, k, result>>

\* line 29: final.append(k)
RowEnd ==
    /\ pc = "row_end"
    /\ final' = Append(final, k)
    /\ pc' = "outer"
    /\ UNCHANGED <<params, width, height, kernw, kernh, beg, end,
                   xlim, ylim, i, j, it_i, it_j, k, result, err, anchors>>

\* line 31: return np.array(final)
Return ==
    /\ pc = "return"
    /\ result' = final
    /\ pc' = "done"
    /\ UNCHANGED <<params, width, height, kernw, kernh, beg, end, final,
                   xlim, ylim, i, j, it_i, it_j, k, err, anchors>>

Next ==
    \/ Unpack
    \/ ComputeXlim
    \/ XlimZeroDivision
    \/ OuterRange
    \/ OuterRangeZeroStep
    \/ OuterNext
    \/ OuterExit
    \/ RowBegin
    \/ YlimZeroDivision
    \/ InnerNext
    \/ InnerExit
    \/ Reduce
    \/ ReduceShapeError
    \/ RowEnd
    \/ Return

Spec == Init /\ [][Next]_vars

TypeOK ==
    /\ pc \in {"call", "xlim", "outer_range", "outer", "row", "inner",
               "window", "row_end", "return", "done", "error"}
    /\ (pc = "error") <=> (err # "none")

\* ------------------------------------------------------------ properties
\* The properties below are stated over the parameters (array.shape,
\* kernel.shape, s) and the observable history, not over the locals the
\* function computes from them.

W == array.shape[1]
H == array.shape[2]
KW == kernel.shape[1]
KH == kernel.shape[2]

\* the number of values of range(0, lim, step), step >= 1, by enumeration
RangeCount(lim, step) ==
    Cardinality({n \in 0..(W + H) : n < lim /\ n % step = 0})

\* the product the documentation describes for anchor (a0, b0): rows
\* [a0, a0+KW) by columns [b0, b0+KH) of the grid, weighted by the kernel
WeightedWindow(a0, b0) ==
    [shape |-> <<KW, KH>>,
     data  |-> [a \in 1..KW |-> [b \in 1..KH |->
                  array.data[a0 + a][b0 + b] * kernel.data[a][b]]]]

\* the window results computed so far (a window whose product raised is in
\* anchors but produced no result)
WindowsComputed ==
    Len(anchors) - (IF err = "ValueError: broadcast" THEN 1 ELSE 0)

\* the rows and columns of the grid the window extracted at anchor a covers
CoveredRows(a) == (a[1] + 1)..Min(a[1] + KW, W)
CoveredCols(a) == (a[2] + 1)..Min(a[2] + KW, H)

\* C1: on every call with stride >= 1 that returns, cell (r, c) of the result
\* is the sum over the KW x KH window anchored at (r*s, c*s) (0-based) of
\* grid element times kernel weight, the window lying inside the grid.
C1_CrossCorrelation ==
    (pc = "done" /\ s >= 1) =>
        \A r \in 1..Len(result) : \A c \in 1..Len(result[r]) :
            /\ (r - 1) * s + KW <= W
            /\ (c - 1) * s + KH <= H
            /\ result[r][c] = NpSum(WeightedWindow((r - 1) * s, (c - 1) * s))

\* C2: dimension law.  On every call with stride >= 1 that returns, the
\* result has as many rows as range(0, W - W mod KW - 1, s) has values, every
\* row has as many columns as range(0, H - H mod KH - 1, s) has values, and
\* the anchors walked are the multiples of s below those limits, row-major.
C2_DimensionLaw ==
    (pc = "done" /\ s >= 1) =>
        /\ Len(result) = RangeCount(W - (W % KW) - 1, s)
        /\ \A r \in 1..Len(result) :
              Len(result[r]) = RangeCount(H - (H % KH) - 1, s)
        /\ Len(result) > 0 =>
              LET cols == RangeCount(H - (H % KH) - 1, s)
              IN  /\ Len(anchors) = Len(result) * cols
                  /\ \A n \in 1..Len(anchors) :
                        anchors[n] = <<((n - 1) \div cols) * s,
                                       ((n - 1) % cols) * s>>

C2_Witness ==
    /\ pc = "done" /\ s >= 2
    /\ Len(result) >= 2
    /\ Len(result[1]) >= 2
    /\ W # H

\* C3 as claimed: the module's call (7 x 7 grid, 3 x 3 kernel of ones,
\* stride 3) walks the single anchor (0, 0) and returns the 1 x 1 grid [[9]].
C3_ScenarioA_Claimed ==
    (array = arr /\ kernel = kernel3 /\ s = 3) =>
        /\ pc # "error"
        /\ pc = "done" => /\ anchors = << <<0, 0>> >>
                          /\ result = << <<9>> >>

\* C3: the module's call walks the anchors 0 and 3 on each axis and returns
\* the 2 x 2 grid [[18, 18], [45, 45]].
C3_ScenarioA ==
    (array = arr /\ kernel = kernel3 /\ s = 3) =>
        /\ pc # "error"
        /\ pc = "done" => /\ anchors = << <<0, 0>>, <<0, 3>>, <<3, 0>>, <<3, 3>> >>
                          /\ result = << <<18, 18>>, <<45, 45>> >>

C3_Witness ==
    array = arr /\ kernel = kernel3 /\ s = 3 /\ pc = "done"

\* C4 as claimed, for kernels with both dimensions >= 1: with stride >= 1 and
\* a kernel larger than the grid on either axis the call does not raise and
\* the result has zero rows.
C4_EmptyResult_Claimed ==
    (s >= 1 /\ KW >= 1 /\ KH >= 1 /\ (KW > W \/ KH > H)) =>
        /\ pc # "error"
        /\ pc = "done" => Len(result) = 0

\* C4: with stride >= 1 and a kernel (both dimensions >= 1) larger than the
\* grid on either axis, the call does not raise, extracts no window, and the
\* result holds no cell: zero rows when the width axis is too small,
\* otherwise the rows of the dimension law, each with zero columns.
C4_EmptyResult ==
    (s >= 1 /\ KW >= 1 /\ KH >= 1 /\ (KW > W \/ KH > H)) =>
        /\ pc # "error"
        /\ anchors = <<>>
        /\ pc = "done" =>
              /\ \A r \in 1..Len(result) : result[r] = <<>>
              /\ KW > W => Len(result) = 0
              /\ KW <= W => Len(result) = RangeCount(W - (W % KW) - 1, s)

C4_Witness ==
    /\ pc = "done" /\ s >= 1
    /\ KW >= 1 /\ KW <= W /\ KH > H
    /\ Len(result) >= 2

\* C5: a call with stride <= 0 never returns a result grid, and with
\* stride = 0 no window is extracted before the error.
C5_NonPositiveStrideRaises ==
    (s <= 0) => /\ pc # "done"
                /\ s = 0 => anchors = <<>>

\* C6: with the 1 x 1 kernel [1] and stride 1 the call returns the grid
\* without its last row and last column: W-1 rows of H-1 columns,
\* result[r][c] = grid[r][c].
C6_IdentityKernel ==
    (KW = 1 /\ KH = 1 /\ kernel.data = << <<1>> >> /\ s = 1) =>
        /\ pc # "error"
        /\ pc = "done" =>
              /\ Len(result) = W - 1
              /\ \A r \in 1..Len(result) :
                    /\ Len(result[r]) = H - 1
                    /\ \A c \in 1..(H - 1) : result[r][c] = array.data[r][c]

C6_Witness ==
    /\ pc = "done" /\ s = 1
    /\ KW = 1 /\ KH = 1 /\ kernel.data = << <<1>> >>
    /\ W >= 3 /\ H >= 3
    /\ array.data[1][2] # array.data[2][1]

\* C7: no step of a call, returning or raising, changes the grid or the
\* kernel it was given (nor the stride).
C7_InputsUnchanged ==
    [][array' = array /\ kernel' = kernel /\ s' = s]_vars

C7_Witness ==
    /\ pc \in {"done", "error"}
    /\ Len(anchors) >= 2

\* C8: with stride >= 1, every anchor (i, j) whose window is extracted
\* satisfies i + KW <= W and j + KH <= H.
C8_WindowsFitGrid ==
    (s >= 1) =>
        \A n \in 1..Len(anchors) :
            /\ anchors[n][1] + KW <= W
            /\ anchors[n][2] + KH <= H

\* C9 as claimed, on the calls that return with a square kernel (where the
\* extracted window is the kernel-sized one): with stride >= 1 no extracted
\* window covers a row >= W - W mod KW when W mod KW # 0, nor a column
\* >= H - H mod KH when H mod KH # 0 (0-based indices).
C9_RemainderExclusion_Claimed ==
    (pc = "done" /\ s >= 1 /\ KW = KH) =>
        \A n \in 1..Len(anchors) :
            /\ (W % KW # 0) =>
                  \A r \in CoveredRows(anchors[n]) : r - 1 < W - (W % KW)
            /\ (H % KH # 0) =>
                  \A c \in CoveredCols(anchors[n]) : c - 1 < H - (H % KH)

\* C9: with stride >= 1 no window is anchored in or next to the trailing
\* strip: every anchor (i, j) has i < W - W mod KW - 1 and
\* j < H - H mod KH - 1.
C9_AnchorExclusion ==
    (s >= 1) =>
        \A n \in 1..Len(anchors) :
            /\ anchors[n][1] < W - (W % KW) - 1
            /\ anchors[n][2] < H - (H % KH) - 1

C9_Witness ==
    /\ pc = "done" /\ s >= 1 /\ KW = KH
    /\ W % KW # 0
    /\ \E n \in 1..Len(anchors) :
          \E r \in CoveredRows(anchors[n]) : r - 1 >= W - (W % KW)

\* C10: fail fast.  A call that ends in an error has computed no window
\* result before the error.
C10_FailFast ==
    (pc = "error") => WindowsComputed = 0
====
